---- MODULE Spec2Model ----
EXTENDS Integers, Naturals, Sequences, FiniteSets, TLC

\* Model of the listing bot in src/bot.py: the ConversationHandler of main()
\* routing Telegram messages of one user to the stage handlers, the shared
\* per-user store context.user_data, and the messages sent to the admin chat.

\* ---------------------------------------------------------------------------
\* Texts.  A Python str is modelled by a label (distinct strings, distinct
\* labels; == on str is equality of labels) and its sequence of characters.
\* Character classes:
\*   "a"        a letter (Latin or Cyrillic)
\*   "E"        an emoji or variation selector (neither space nor digit)
\*   " ", "NL"  whitespace (space, newline)
\*   "0".."9"   ASCII decimal digits
\*   "F5"       FULLWIDTH DIGIT FIVE (Unicode Nd, decimal value 5)
\*   "S2"       SUPERSCRIPT TWO (isdigit() is True, not a decimal digit)
\*   "+", "-", "(", ")", "/"  punctuation
\* ---------------------------------------------------------------------------

T(label, chars) == [s |-> label, ch |-> chars]

Rep(n, c) == [i \in 1..n |-> c]

NoText == T("", <<>>)

ASCIIDigits == {"0", "1", "2", "3", "4", "5", "6", "7", "8", "9"}

DigitValue == [c \in ASCIIDigits \cup {"F5"} |->
                 CASE c = "0" -> 0 [] c = "1" -> 1 [] c = "2" -> 2
                   [] c = "3" -> 3 [] c = "4" -> 4 [] c = "5" -> 5
                   [] c = "6" -> 6 [] c = "7" -> 7 [] c = "8" -> 8
                   [] c = "9" -> 9 [] c = "F5" -> 5]

\* str.isspace per character
IsSpaceChar(c) == c \in {" ", "NL"}

\* str.isdigit per character (Numeric_Type Digit or Decimal)
IsDigitChar(c) == c \in ASCIIDigits \cup {"F5", "S2"}

\* characters int() accepts as digits (Unicode Nd); also the regex class \d
IsDecimalChar(c) == c \in ASCIIDigits \cup {"F5"}

\* length of s.strip(): drop leading and trailing whitespace
StripLen(ch) ==
  LET n == Len(ch)
      core == {i \in 1..n : ~IsSpaceChar(ch[i])}
  IN IF core = {} THEN 0
     ELSE (CHOOSE j \in core : \A k \in core : k <= j)
          - (CHOOSE i \in core : \A k \in core : i <= k) + 1

\* int(s) for a string of decimal digits
RECURSIVE IntVal(_)
IntVal(ch) == IF ch = <<>> THEN 0
              ELSE IntVal(SubSeq(ch, 1, Len(ch) - 1)) * 10 + DigitValue[ch[Len(ch)]]

\* validate_text(text, min_len=2, max_len=200)
validate_text(t, min_len, max_len) ==
  min_len <= StripLen(t.ch) /\ StripLen(t.ch) <= max_len

\* validate_price(price): price.isdigit() and int(price) > 0.  Returns
\* "true", "false" or "raise" (int() raises ValueError on a character that
\* isdigit() accepts but that is no decimal digit).
validate_price(t) ==
  LET ch == t.ch IN
  IF ~(Len(ch) > 0 /\ \A i \in 1..Len(ch) : IsDigitChar(ch[i])) THEN "false"
  ELSE IF \E i \in 1..Len(ch) : ~IsDecimalChar(ch[i]) THEN "raise"
  ELSE IF IntVal(ch) > 0 THEN "true" ELSE "false"

\* the character class [\d\s\-\(\)] of validate_phone
PhoneClass(c) == IsDecimalChar(c) \/ IsSpaceChar(c) \/ c \in {"-", "(", ")"}

PhoneBody(b) ==
  (Len(b) >= 7 /\ Len(b) <= 15 /\ \A i \in 1..Len(b) : PhoneClass(b[i]))
  \* $ also matches right before a trailing newline
  \/ (Len(b) >= 8 /\ b[Len(b)] = "NL" /\ Len(b) - 1 <= 15
      /\ \A i \in 1..Len(b) - 1 : PhoneClass(b[i]))

\* validate_phone(phone): re.match(r'^\+?[\d\s\-\(\)]{7,15}$', phone)
validate_phone(t) ==
  IF Len(t.ch) > 0 /\ t.ch[1] = "+" THEN PhoneBody(Tail(t.ch)) ELSE PhoneBody(t.ch)

\* ---------------------------------------------------------------------------
\* Button texts and commands of the keyboards
\* ---------------------------------------------------------------------------

BackTok == T("Back", <<"E", "E", " ">> \o Rep(5, "a"))            \* "⬅️ Назад"
CancelTok == T("Cancel", <<"E", " ">> \o Rep(6, "a"))             \* "❌ Отмена"
CancelConfirmTok == T("CancelConfirm", <<"E", " ">> \o Rep(8, "a")) \* "❌ Отменить"
NextTok == T("Next", <<"E", " ">> \o Rep(5, "a"))                 \* "📤 Далее"
NoInfoTok == T("NoInfo", <<"E", " ">> \o Rep(3, "a") \o <<" ">> \o Rep(10, "a")) \* "❌ Нет информации"
NoInfoValue == T("NoInfoValue", Rep(3, "a") \o <<" ">> \o Rep(10, "a"))          \* "Нет информации"
PickupTok == T("Pickup", <<"E", " ">> \o Rep(9, "a"))             \* "🚗 Самовывоз"
DeliveryTok == T("Delivery", <<"E", " ">> \o Rep(8, "a"))         \* "🏪 Доставка"
ConfirmTok == T("Confirm", <<"E", " ">> \o Rep(9, "a") \o <<" ">> \o Rep(6, "a")) \* "✅ Отправить заявку"
StartText == T("/start", <<"/">> \o Rep(5, "a"))
CancelCmdText == T("/cancel", <<"/">> \o Rep(6, "a"))

\* the display name written to user_data['user_name']
UserName == T("UserName", Rep(8, "a"))

\* ---------------------------------------------------------------------------
\* Messages: a text, a bot command, or a photo (message.photo[-1].file_id)
\* ---------------------------------------------------------------------------

TextMsg(t) == [kind |-> "text", t |-> t, cmd |-> "", id |-> 0]
CmdMsg(name, t) == [kind |-> "cmd", t |-> t, cmd |-> name, id |-> 0]
PhotoMsg(i) == [kind |-> "photo", t |-> NoText, cmd |-> "", id |-> i]

StartCmd == CmdMsg("start", StartText)
CancelCmd == CmdMsg("cancel", CancelCmdText)

\* message.text is set (filters.TEXT): plain texts and commands
HasText(m) == m.kind \in {"text", "cmd"}

\* ---------------------------------------------------------------------------
\* State
\* ---------------------------------------------------------------------------

States == {"CHOOSE_CATEGORY", "GET_ITEM_NAME", "GET_PHOTOS", "GET_DESCRIPTION",
           "GET_PRICE", "GET_CITY", "GET_DELIVERY", "GET_PICKUP_ADDRESS",
           "GET_CONTACTS", "CONFIRM"}

END == "END"

Keys == {"category", "item_name", "user_name", "photos", "description", "price",
         "city", "delivery", "pickup_address", "contacts"}

\* a user_data value: a str (t) or a list of file ids (l); NONE = key absent
NONE == [set |-> FALSE, t |-> NoText, l |-> <<>>]
SV(t) == [set |-> TRUE, t |-> t, l |-> <<>>]
LV(l) == [set |-> TRUE, t |-> NoText, l |-> l]

EmptyUserData == [k \in Keys |-> NONE]

AllChats == {"c1", "c2"}

\* updates sent before the answer to an earlier one arrived
MaxOverlap == 1

\* task slots: updates processed at the same time (Application.concurrent_updates(True))
Slots == 1..(MaxOverlap + 1)

\* a task slot: pc "await" while the handler is suspended at an await, "sent"
\* while confirm_application awaits send_message; c the chat, st the state the
\* handler returns, from the stage it was routed at, clear whether it ends
\* with user_data.clear(), df whether a send to the admin failed, n the number
\* of photos stored when a submission was confirmed
IdleTask == [pc |-> "idle", c |-> "none", st |-> END, from |-> "none", clear |-> FALSE, df |-> FALSE, n |-> 0]

VARIABLES
  conv,    \* ConversationHandler state per (chat, user) key; END = no conversation
  ud,      \* context.user_data of the user (shared by the user's chats)
  reply,   \* the reply sent to the user by the last update
  admin,   \* the messages sent to ADMIN_CHAT_ID by the last update
  ev,      \* the last step: chat, message, handler, routed stage, phase
           \* ("route", "resume", "end"), reply delivered, state returned
  rt,      \* number of updates so far equal to a prefix of Script, -1 once they differ
  via,     \* per chat: the stage GET_CONTACTS was last entered from going forward
  tasks,   \* per task slot: an update whose handler is suspended at an await
  ov       \* number of updates routed while another update was being processed

vars == <<conv, ud, reply, admin, ev, rt, via, tasks, ov>>

NoMsg == [kind |-> "none", t |-> NoText, cmd |-> "", id |-> 0]

Init ==
  /\ conv = [c \in AllChats |-> END]
  /\ ud = EmptyUserData
  /\ reply = [c |-> "none", tag |-> "none"]
  /\ admin = <<>>
  /\ ev = [c |-> "none", m |-> NoMsg, h |-> "none", from |-> "none", ph |-> "none", ok |-> TRUE, st |-> END]
  /\ rt = 0
  /\ via = [c \in AllChats |-> "none"]
  /\ tasks = [i \in Slots |-> IdleTask]
  /\ ov = 0

\* ---------------------------------------------------------------------------
\* Handler results: next conversation state, user_data, reply tag, admin sends
\* ---------------------------------------------------------------------------

Res(st, u, rp, adm) == [st |-> st, ud |-> u, reply |-> rp, admin |-> adm]

Set(u, k, v) == [u EXCEPT ![k] = SV(v)]

\* context.user_data.pop(k, None)
Pop(u, k) == [u EXCEPT ![k] = NONE]

\* truthiness of a stored str
Truthy(v) == v # NONE /\ Len(v.t.ch) > 0

\* cancel(): clear user_data, tell the user, end the conversation
cancel_res(u) == Res(END, EmptyUserData, "cancelled", <<>>)

start_res(u) == Res("CHOOSE_CATEGORY", EmptyUserData, "ask_category", <<>>)

\* error_handler() after an exception caught in a handler
ErrorRes(u) == Res(END, u, "error", <<>>)

handle_category_res(t, u) ==
  IF t = CancelTok THEN cancel_res(u)
  ELSE Res("GET_ITEM_NAME", Set(u, "category", t), "ask_item_name", <<>>)

handle_item_name_res(t, u) ==
  IF t = BackTok THEN Res("CHOOSE_CATEGORY", u, "ask_category", <<>>)
  ELSE IF t = CancelTok THEN cancel_res(u)
  ELSE IF ~validate_text(t, 2, 200) THEN Res("GET_ITEM_NAME", u, "err_item_name", <<>>)
  ELSE Res("GET_PHOTOS",
           [Set(u, "item_name", t) EXCEPT !["user_name"] = SV(UserName), !["photos"] = LV(<<>>)],
           "ask_photos", <<>>)

PhotoList(u) == IF u["photos"] = NONE THEN <<>> ELSE u["photos"].l

InList(x, s) == \E i \in 1..Len(s) : s[i] = x

\* handle_photos without the "if photo not in context.user_data['photos']" test
handle_photos_res_nodedup(m, u) ==
  IF HasText(m) THEN
    IF m.t = BackTok THEN Res("GET_ITEM_NAME", Pop(u, "photos"), "ask_item_name", <<>>)
    ELSE IF m.t = CancelTok THEN cancel_res(Pop(u, "photos"))
    ELSE IF m.t = NextTok THEN
      IF Len(PhotoList(u)) < 1 THEN Res("GET_PHOTOS", u, "err_need_photo", <<>>)
      ELSE Res("GET_DESCRIPTION", u, "ask_description", <<>>)
    ELSE Res("GET_PHOTOS", u, "none", <<>>)
  ELSE
    LET u1 == IF u["photos"] = NONE THEN [u EXCEPT !["photos"] = LV(<<>>)] ELSE u
        u2 == [u1 EXCEPT !["photos"] = LV(Append(u1["photos"].l, m.id))]
    IN IF Len(u2["photos"].l) <= 10 THEN Res("GET_PHOTOS", u2, "photo_received", <<>>)
       ELSE Res("GET_PHOTOS", u2, "photo_limit", <<>>)

handle_photos_res(m, u) ==
  IF HasText(m) THEN
    IF m.t = BackTok THEN Res("GET_ITEM_NAME", Pop(u, "photos"), "ask_item_name", <<>>)
    ELSE IF m.t = CancelTok THEN cancel_res(Pop(u, "photos"))
    ELSE IF m.t = NextTok THEN
      IF Len(PhotoList(u)) < 1 THEN Res("GET_PHOTOS", u, "err_need_photo", <<>>)
      ELSE Res("GET_DESCRIPTION", u, "ask_description", <<>>)
    ELSE Res("GET_PHOTOS", u, "none", <<>>)
  ELSE
    LET u1 == IF u["photos"] = NONE THEN [u EXCEPT !["photos"] = LV(<<>>)] ELSE u
    IN IF ~InList(m.id, u1["photos"].l) THEN
         LET u2 == [u1 EXCEPT !["photos"] = LV(Append(u1["photos"].l, m.id))]
         IN IF Len(u2["photos"].l) <= 10 THEN Res("GET_PHOTOS", u2, "photo_received", <<>>)
            ELSE Res("GET_PHOTOS", u2, "photo_limit", <<>>)
       ELSE Res("GET_PHOTOS", u1, "none", <<>>)

handle_description_res(t, u) ==
  IF t = BackTok THEN Res("GET_PHOTOS", u, "ask_photos", <<>>)
  ELSE IF t = CancelTok THEN cancel_res(u)
  ELSE IF t = NoInfoTok THEN Res("GET_PRICE", Set(u, "description", NoInfoValue), "ask_price", <<>>)
  ELSE IF ~validate_text(t, 2, 500) THEN Res("GET_DESCRIPTION", u, "err_description", <<>>)
  ELSE Res("GET_PRICE", Set(u, "description", t), "ask_price", <<>>)

handle_price_res(t, u) ==
  IF t = BackTok THEN Res("GET_DESCRIPTION", u, "ask_description", <<>>)
  ELSE IF t = CancelTok THEN cancel_res(u)
  ELSE IF validate_price(t) = "raise" THEN ErrorRes(u)
  ELSE IF validate_price(t) = "false" THEN Res("GET_PRICE", u, "err_price", <<>>)
  ELSE Res("GET_CITY", Set(u, "price", t), "ask_city", <<>>)

handle_city_res(t, u) ==
  IF t = BackTok THEN Res("GET_PRICE", u, "ask_price", <<>>)
  ELSE IF t = CancelTok THEN cancel_res(u)
  ELSE IF ~validate_text(t, 2, 50) THEN Res("GET_CITY", u, "err_city", <<>>)
  ELSE Res("GET_DELIVERY", Set(u, "city", t), "ask_delivery", <<>>)

\* handle_delivery that sends both buttons straight to GET_CONTACTS
handle_delivery_res_skip(t, u) ==
  IF t = BackTok THEN Res("GET_CITY", u, "ask_city", <<>>)
  ELSE IF t = CancelTok THEN cancel_res(u)
  ELSE IF t \notin {PickupTok, DeliveryTok} THEN Res("GET_DELIVERY", u, "err_delivery", <<>>)
  ELSE Res("GET_CONTACTS", Set(u, "delivery", t), "ask_contacts", <<>>)

handle_delivery_res(t, u) ==
  IF t = BackTok THEN Res("GET_CITY", u, "ask_city", <<>>)
  ELSE IF t = CancelTok THEN cancel_res(u)
  ELSE IF t \notin {PickupTok, DeliveryTok} THEN Res("GET_DELIVERY", u, "err_delivery", <<>>)
  ELSE IF t = PickupTok THEN Res("GET_PICKUP_ADDRESS", Set(u, "delivery", t), "ask_pickup_address", <<>>)
  ELSE Res("GET_CONTACTS", Set(u, "delivery", t), "ask_contacts", <<>>)

handle_pickup_address_res(t, u) ==
  IF t = BackTok THEN Res("GET_DELIVERY", u, "ask_delivery", <<>>)
  ELSE IF t = CancelTok THEN cancel_res(u)
  ELSE IF ~validate_text(t, 5, 200) THEN Res("GET_PICKUP_ADDRESS", u, "err_pickup_address", <<>>)
  ELSE Res("GET_CONTACTS", Set(u, "pickup_address", t), "ask_contacts", <<>>)

\* keys read with user_data[...] by the summary of handle_contacts
SummaryKeys == {"user_name", "item_name", "category", "price", "city", "delivery", "contacts"}

handle_contacts_res(t, u) ==
  IF t = BackTok THEN
    IF u["delivery"] = SV(PickupTok) THEN Res("GET_PICKUP_ADDRESS", u, "ask_pickup_address", <<>>)
    ELSE Res("GET_DELIVERY", u, "ask_delivery", <<>>)
  ELSE IF t = CancelTok THEN cancel_res(u)
  ELSE IF ~validate_phone(t) THEN Res("GET_CONTACTS", u, "err_contacts", <<>>)
  ELSE LET u1 == Set(u, "contacts", t)
       IN IF \E k \in SummaryKeys : u1[k] = NONE THEN ErrorRes(u1)   \* KeyError
          ELSE Res("CONFIRM", u1, "summary", <<>>)

required_fields == <<"item_name", "category", "price", "city", "delivery", "contacts">>

\* the admin message of confirm_application: one (field, value) line per entry
AdminMessage(u) ==
  <<[f |-> "user_name", v |-> u["user_name"].t],
    [f |-> "item_name", v |-> u["item_name"].t],
    [f |-> "category", v |-> u["category"].t],
    [f |-> "description", v |-> IF u["description"] = NONE THEN NoInfoValue ELSE u["description"].t],
    [f |-> "price", v |-> u["price"].t],
    [f |-> "city", v |-> u["city"].t],
    [f |-> "delivery", v |-> u["delivery"].t]>>
  \o (IF Truthy(u["pickup_address"]) THEN <<[f |-> "pickup_address", v |-> u["pickup_address"].t]>> ELSE <<>>)
  \o <<[f |-> "contacts", v |-> u["contacts"].t]>>

\* confirm_application() up to its first await: the checks, and on the submit
\* path (reply "sending") the admin message passed to send_message; the rest
\* of the submit path runs after that await (confirm_send_media, finish)
confirm_application_res(t, u) ==
  IF t = BackTok THEN Res("GET_CONTACTS", u, "ask_contacts", <<>>)
  ELSE IF t = CancelConfirmTok THEN cancel_res(u)
  ELSE IF t # ConfirmTok THEN Res("CONFIRM", u, "use_buttons", <<>>)
  ELSE IF \E i \in 1..Len(required_fields) : u[required_fields[i]] = NONE
       THEN Res(END, u, "err_missing", <<>>)
  ELSE IF u["user_name"] = NONE THEN ErrorRes(u)   \* KeyError building the message
  ELSE Res(END, u, "sending", <<[type |-> "text", body |-> AdminMessage(u), media |-> <<>>]>>)

\* the media group of confirm_application, built from user_data as it is
\* when the handler resumes after send_message
HasPhotos(u) == u["photos"] # NONE /\ Len(u["photos"].l) > 0

MediaOf(u) == SubSeq(u["photos"].l, 1, IF Len(u["photos"].l) < 10 THEN Len(u["photos"].l) ELSE 10)

\* user texts sent as inputs

MaxPhotoId == 12

Junk == T("x", <<"a">>)
Coins == T("Coins", <<"E", " ">> \o Rep(6, "a") \o <<"/">> \o Rep(6, "a"))  \* "💰 Монеты/купюры"
OldRuble == T("Old Ruble", Rep(3, "a") \o <<" ">> \o Rep(5, "a"))
Name101 == T("a*101", Rep(101, "a"))
GoldDesc == T("Gold 1900", Rep(4, "a") \o <<" ", "1", "9", "0", "0">>)
P500 == T("500", <<"5", "0", "0">>)
P0 == T("0", <<"0">>)
PNeg5 == T("-5", <<"-", "5">>)
P12a == T("12a", <<"1", "2", "a">>)
P007 == T("007", <<"0", "0", "7">>)
PSup2 == T("S2", <<"S2">>)
PFull5 == T("F5", <<"F5">>)
Town == T("Town", Rep(4, "a"))
MainSt == T("1 Main St", <<"1", " ">> \o Rep(4, "a") \o <<" ">> \o Rep(2, "a"))
Phone == T("+79161234567", <<"+", "7", "9", "1", "6", "1", "2", "3", "4", "5", "6", "7">>)

\* ---------------------------------------------------------------------------
\* ConversationHandler(entry_points=[CommandHandler('start', start)], states,
\* fallbacks=[CommandHandler('cancel', cancel), MessageHandler(Regex, cancel)],
\* allow_reentry=True): entry points are tried first (also while a conversation
\* is active), then the handlers of the current state, then the fallbacks.
\* ---------------------------------------------------------------------------

HandlerOf == [s \in States |->
  CASE s = "CHOOSE_CATEGORY" -> "handle_category"
    [] s = "GET_ITEM_NAME" -> "handle_item_name"
    [] s = "GET_PHOTOS" -> "handle_photos"
    [] s = "GET_DESCRIPTION" -> "handle_description"
    [] s = "GET_PRICE" -> "handle_price"
    [] s = "GET_CITY" -> "handle_city"
    [] s = "GET_DELIVERY" -> "handle_delivery"
    [] s = "GET_PICKUP_ADDRESS" -> "handle_pickup_address"
    [] s = "GET_CONTACTS" -> "handle_contacts"
    [] s = "CONFIRM" -> "confirm_application"]

\* the state's MessageHandler filter: filters.PHOTO | filters.TEXT for
\* GET_PHOTOS, filters.TEXT & ~filters.COMMAND for every other state
StateFilter(st, m) ==
  IF st = "GET_PHOTOS" THEN m.kind \in {"photo", "text", "cmd"} ELSE m.kind = "text"

\* fallbacks: CommandHandler('cancel'), MessageHandler(Regex('^(❌ Отмена|❌ Отменить)$'))
FallbackMatch(m) ==
  \/ m.kind = "cmd" /\ m.cmd = "cancel"
  \/ m.kind = "text" /\ m.t \in {CancelTok, CancelConfirmTok}

Route(c, m) ==
  LET st == conv[c] IN
  IF m.kind = "cmd" /\ m.cmd = "start" THEN "start"
  ELSE IF st = END THEN "none"
  ELSE IF StateFilter(st, m) THEN HandlerOf[st]
  ELSE IF FallbackMatch(m) THEN "cancel"
  ELSE "none"

\* the update sequence of the round trip of spec section 8
Script == <<StartCmd, TextMsg(Coins), TextMsg(OldRuble), PhotoMsg(1), TextMsg(NextTok),
            TextMsg(NoInfoTok), TextMsg(P500), TextMsg(Town), TextMsg(PickupTok),
            TextMsg(MainSt), TextMsg(Phone), TextMsg(ConfirmTok)>>

\* no update of the user is being processed
Idle == \A j \in Slots : tasks[j].pc = "idle"

\* the script advances on its next update, sent in order but possibly before
\* the answer to the previous one arrived
RtStep(m) == rt' = IF rt >= 0 /\ rt < Len(Script) /\ m = Script[rt + 1] THEN rt + 1 ELSE -1

\* the script's next update, which the user may send at any time
ScriptNext == IF rt >= 0 /\ rt < Len(Script) THEN {Script[rt + 1]} ELSE {}

\* routing an update, counting it when another update is still being processed
OvStep == /\ ov' = IF Idle THEN ov ELSE ov + 1
          /\ ov' <= MaxOverlap

\* the handler's except branch after its awaited message.reply_text raised:
\* error_handler (which swallows its own failure) and return END; the
\* user_data writes made before the await stay
ReplyFailed(r) == ErrorRes(r.ud)

\* The task of update m in chat c: the ConversationHandler routes it on the
\* stored state and runs handler h up to its first await (result r).  A path
\* without an await (reply "none") returns at once and its state is stored;
\* otherwise the task waits in slot i (the lowest free one) and finish(i)
\* stores the state.  okReply: whether the awaited reply_text is delivered.
Dispatch(i, c, m, h, r) ==
  \E okReply \in BOOLEAN :
    LET out == IF okReply THEN r ELSE ReplyFailed(r) IN
    /\ r.reply \in {"none", "error"} => okReply
    /\ RtStep(m)
    /\ OvStep
    /\ ud' = out.ud
    /\ reply' = [c |-> c, tag |-> out.reply]
    /\ admin' = <<>>
    /\ ev' = [c |-> c, m |-> m, h |-> h, from |-> conv[c], ph |-> "route", ok |-> okReply, st |-> out.st]
    /\ IF r.reply = "none"
       THEN /\ conv' = [conv EXCEPT ![c] = out.st]
            /\ UNCHANGED <<tasks, via>>
       ELSE /\ tasks[i].pc = "idle"
            /\ \A j \in Slots : j < i => tasks[j].pc # "idle"
            /\ tasks' = [tasks EXCEPT ![i] = [pc |-> "await", c |-> c, st |-> out.st, from |-> conv[c],
                                              clear |-> FALSE, df |-> FALSE, n |-> 0]]
            /\ UNCHANGED <<conv, via>>

start(i, c, m) == Route(c, m) = "start" /\ Dispatch(i, c, m, "start", start_res(ud))

cancel(i, c, m) == Route(c, m) = "cancel" /\ Dispatch(i, c, m, "cancel", cancel_res(ud))

handle_category(i, c, m) ==
  Route(c, m) = "handle_category" /\ Dispatch(i, c, m, "handle_category", handle_category_res(m.t, ud))

handle_item_name(i, c, m) ==
  Route(c, m) = "handle_item_name" /\ Dispatch(i, c, m, "handle_item_name", handle_item_name_res(m.t, ud))

handle_photos(i, c, m) ==
  Route(c, m) = "handle_photos" /\ Dispatch(i, c, m, "handle_photos", handle_photos_res(m, ud))

handle_description(i, c, m) ==
  Route(c, m) = "handle_description" /\ Dispatch(i, c, m, "handle_description", handle_description_res(m.t, ud))

handle_price(i, c, m) ==
  Route(c, m) = "handle_price" /\ Dispatch(i, c, m, "handle_price", handle_price_res(m.t, ud))

handle_city(i, c, m) ==
  Route(c, m) = "handle_city" /\ Dispatch(i, c, m, "handle_city", handle_city_res(m.t, ud))

handle_delivery(i, c, m) ==
  Route(c, m) = "handle_delivery" /\ Dispatch(i, c, m, "handle_delivery", handle_delivery_res(m.t, ud))

handle_pickup_address(i, c, m) ==
  Route(c, m) = "handle_pickup_address"
  /\ Dispatch(i, c, m, "handle_pickup_address", handle_pickup_address_res(m.t, ud))

handle_contacts(i, c, m) ==
  Route(c, m) = "handle_contacts" /\ Dispatch(i, c, m, "handle_contacts", handle_contacts_res(m.t, ud))

\* confirm_application: every path but the submit one is a Dispatch; the
\* submit path awaits send_message (okText: delivered) with the message built
\* from user_data before the await
confirm_application(i, c, m) ==
  /\ Route(c, m) = "confirm_application"
  /\ LET r == confirm_application_res(m.t, ud) IN
     IF r.reply # "sending" THEN Dispatch(i, c, m, "confirm_application", r)
     ELSE \E okText \in BOOLEAN :
       /\ tasks[i].pc = "idle"
       /\ \A j \in Slots : j < i => tasks[j].pc # "idle"
       /\ RtStep(m)
       /\ OvStep
       /\ admin' = <<[type |-> "text", body |-> r.admin[1].body, media |-> <<>>, ok |-> okText]>>
       /\ reply' = [c |-> c, tag |-> IF okText THEN "none" ELSE "error"]
       /\ ev' = [c |-> c, m |-> m, h |-> "confirm_application", from |-> conv[c], ph |-> "route",
                 ok |-> okText, st |-> END]
       /\ tasks' = [tasks EXCEPT ![i] = [pc |-> IF okText THEN "sent" ELSE "await", c |-> c, st |-> END,
                                         from |-> conv[c], clear |-> FALSE, df |-> ~okText,
                                         n |-> Len(PhotoList(ud))]]
       /\ UNCHANGED <<conv, ud, via>>

\* confirm_application resumed after send_message: it reads the photos from
\* user_data as it is now, awaits send_media_group (okMedia) when there are
\* some, then reply_text (okReply); user_data.clear() and return END follow
\* only when all of these were delivered
confirm_send_media(i) ==
  /\ tasks[i].pc = "sent"
  /\ \E okMedia, okReply \in BOOLEAN :
       LET hp == HasPhotos(ud)
           mfail == hp /\ ~okMedia
           ok == ~mfail /\ okReply
       IN /\ ~hp => okMedia
          /\ mfail => okReply
          /\ admin' = IF hp THEN <<[type |-> "media", body |-> <<>>, media |-> MediaOf(ud), ok |-> okMedia]>>
                      ELSE <<>>
          /\ reply' = [c |-> tasks[i].c, tag |-> IF ok THEN "submitted" ELSE "error"]
          /\ ev' = [c |-> tasks[i].c, m |-> NoMsg, h |-> "confirm_application", from |-> tasks[i].from,
                    ph |-> "resume", ok |-> ok, st |-> END]
          /\ tasks' = [tasks EXCEPT ![i].pc = "await", ![i].clear = ok, ![i].df = mfail]
  /\ UNCHANGED <<conv, ud, rt, via, ov>>

\* the handler of task i returns: the ConversationHandler stores its state
finish(i) ==
  /\ tasks[i].pc = "await"
  /\ LET t == tasks[i] IN
       /\ conv' = [conv EXCEPT ![t.c] = t.st]
       /\ ud' = IF t.clear THEN EmptyUserData ELSE ud
       /\ via' = [via EXCEPT ![t.c] = IF t.st = "GET_CONTACTS" /\ t.from \in {"GET_DELIVERY", "GET_PICKUP_ADDRESS"}
                                      THEN t.from ELSE via[t.c]]
       /\ ev' = [c |-> t.c, m |-> NoMsg, h |-> "none", from |-> t.from, ph |-> "end", ok |-> ~t.df, st |-> t.st]
  /\ tasks' = [tasks EXCEPT ![i] = IdleTask]
  /\ admin' = <<>>
  /\ UNCHANGED <<reply, rt, ov>>

\* an update no handler of the conversation matches
ignore(c, m) ==
  /\ Route(c, m) = "none"
  /\ RtStep(m)
  /\ UNCHANGED <<conv, ud, via, tasks, ov>>
  /\ reply' = [c |-> c, tag |-> "none"]
  /\ admin' = <<>>
  /\ ev' = [c |-> c, m |-> m, h |-> "none", from |-> conv[c], ph |-> "route", ok |-> TRUE, st |-> conv[c]]

\* ---------------------------------------------------------------------------
\* Inputs
\* ---------------------------------------------------------------------------

UniversalInputs == {TextMsg(BackTok), TextMsg(CancelTok), TextMsg(Junk), StartCmd, CancelCmd}

StageTexts(st) ==
  CASE st = "CHOOSE_CATEGORY" -> {Coins}
    [] st = "GET_ITEM_NAME" -> {OldRuble, Name101}
    [] st = "GET_PHOTOS" -> {NextTok}
    [] st = "GET_DESCRIPTION" -> {NoInfoTok, GoldDesc}
    [] st = "GET_PRICE" -> {P500, P0, PNeg5, P12a, P007, PSup2, PFull5}
    [] st = "GET_CITY" -> {Town}
    [] st = "GET_DELIVERY" -> {PickupTok, DeliveryTok}
    [] st = "GET_PICKUP_ADDRESS" -> {MainSt}
    [] st = "GET_CONTACTS" -> {Phone}
    [] st = "CONFIRM" -> {ConfirmTok, CancelConfirmTok}
    [] OTHER -> {}

\* photo updates: a file id already stored, or one new id
PhotoInputs == {PhotoMsg(i) : i \in 1..(IF Len(PhotoList(ud)) + 1 < MaxPhotoId
                                         THEN Len(PhotoList(ud)) + 1 ELSE MaxPhotoId)}

\* with no conversation: the entry command, the cancel command and a text
EndInputs == {StartCmd, CancelCmd, TextMsg(BackTok)}

\* the buttons, the commands, one image and one valid text per stage
SmallStageTexts(st) ==
  CASE st = "CHOOSE_CATEGORY" -> {Coins}
    [] st = "GET_ITEM_NAME" -> {OldRuble}
    [] st = "GET_PHOTOS" -> {NextTok}
    [] st = "GET_DESCRIPTION" -> {NoInfoTok}
    [] st = "GET_PRICE" -> {P500}
    [] st = "GET_CITY" -> {Town}
    [] st = "GET_DELIVERY" -> {PickupTok, DeliveryTok}
    [] st = "GET_PICKUP_ADDRESS" -> {MainSt}
    [] st = "GET_CONTACTS" -> {Phone}
    [] st = "CONFIRM" -> {ConfirmTok}
    [] OTHER -> {}

SmallInputs(c) ==
  ScriptNext \cup
  IF conv[c] = END THEN EndInputs
  ELSE {TextMsg(BackTok), StartCmd, CancelCmd, PhotoMsg(1)} \cup {TextMsg(t) : t \in SmallStageTexts(conv[c])}

\* one conversation, the user in chat c1, whose updates are processed
\* concurrently (Application.concurrent_updates(True)): a task is routed while
\* other tasks of the conversation are suspended at their awaits
Next ==
  \/ \E i \in Slots : \E m \in SmallInputs("c1") : start(i, "c1", m)
  \/ \E i \in Slots : \E m \in SmallInputs("c1") : cancel(i, "c1", m)
  \/ \E i \in Slots : \E m \in SmallInputs("c1") : handle_category(i, "c1", m)
  \/ \E i \in Slots : \E m \in SmallInputs("c1") : handle_item_name(i, "c1", m)
  \/ \E i \in Slots : \E m \in SmallInputs("c1") : handle_photos(i, "c1", m)
  \/ \E i \in Slots : \E m \in SmallInputs("c1") : handle_description(i, "c1", m)
  \/ \E i \in Slots : \E m \in SmallInputs("c1") : handle_price(i, "c1", m)
  \/ \E i \in Slots : \E m \in SmallInputs("c1") : handle_city(i, "c1", m)
  \/ \E i \in Slots : \E m \in SmallInputs("c1") : handle_delivery(i, "c1", m)
  \/ \E i \in Slots : \E m \in SmallInputs("c1") : handle_pickup_address(i, "c1", m)
  \/ \E i \in Slots : \E m \in SmallInputs("c1") : handle_contacts(i, "c1", m)
  \/ \E i \in Slots : \E m \in SmallInputs("c1") : confirm_application(i, "c1", m)
  \/ \E i \in Slots : confirm_send_media(i)
  \/ \E i \in Slots : finish(i)
  \/ \E m \in SmallInputs("c1") : ignore("c1", m)

Spec == Init /\ [][Next]_vars

\* the buttons, the commands, one valid text per stage and every next image
SerialInputs(c) ==
  IF conv[c] = END THEN EndInputs
  ELSE {TextMsg(BackTok), StartCmd, CancelCmd} \cup {TextMsg(t) : t \in SmallStageTexts(conv[c])} \cup PhotoInputs

\* the same conversation when every update is sent after the previous one was
\* answered, with images up to MaxPhotoId
SerialNext ==
  \/ \E m \in SerialInputs("c1") : Idle /\ start(1, "c1", m)
  \/ \E m \in SerialInputs("c1") : Idle /\ cancel(1, "c1", m)
  \/ \E m \in SerialInputs("c1") : Idle /\ handle_category(1, "c1", m)
  \/ \E m \in SerialInputs("c1") : Idle /\ handle_item_name(1, "c1", m)
  \/ \E m \in SerialInputs("c1") : Idle /\ handle_photos(1, "c1", m)
  \/ \E m \in SerialInputs("c1") : Idle /\ handle_description(1, "c1", m)
  \/ \E m \in SerialInputs("c1") : Idle /\ handle_price(1, "c1", m)
  \/ \E m \in SerialInputs("c1") : Idle /\ handle_city(1, "c1", m)
  \/ \E m \in SerialInputs("c1") : Idle /\ handle_delivery(1, "c1", m)
  \/ \E m \in SerialInputs("c1") : Idle /\ handle_pickup_address(1, "c1", m)
  \/ \E m \in SerialInputs("c1") : Idle /\ handle_contacts(1, "c1", m)
  \/ \E m \in SerialInputs("c1") : Idle /\ confirm_application(1, "c1", m)
  \/ confirm_send_media(1)
  \/ finish(1)
  \/ \E m \in SerialInputs("c1") : Idle /\ ignore("c1", m)

SerialSpec == Init /\ [][SerialNext]_vars

\* one update at a time over the inputs of every stage rule and two images
StepInputs(c) ==
  IF conv[c] = END THEN EndInputs
  ELSE UniversalInputs \cup {TextMsg(t) : t \in StageTexts(conv[c])} \cup {PhotoMsg(1), PhotoMsg(2)}

StepNext ==
  \/ \E m \in StepInputs("c1") : Idle /\ start(1, "c1", m)
  \/ \E m \in StepInputs("c1") : Idle /\ cancel(1, "c1", m)
  \/ \E m \in StepInputs("c1") : Idle /\ handle_category(1, "c1", m)
  \/ \E m \in StepInputs("c1") : Idle /\ handle_item_name(1, "c1", m)
  \/ \E m \in StepInputs("c1") : Idle /\ handle_photos(1, "c1", m)
  \/ \E m \in StepInputs("c1") : Idle /\ handle_description(1, "c1", m)
  \/ \E m \in StepInputs("c1") : Idle /\ handle_price(1, "c1", m)
  \/ \E m \in StepInputs("c1") : Idle /\ handle_city(1, "c1", m)
  \/ \E m \in StepInputs("c1") : Idle /\ handle_delivery(1, "c1", m)
  \/ \E m \in StepInputs("c1") : Idle /\ handle_pickup_address(1, "c1", m)
  \/ \E m \in StepInputs("c1") : Idle /\ handle_contacts(1, "c1", m)
  \/ \E m \in StepInputs("c1") : Idle /\ confirm_application(1, "c1", m)
  \/ confirm_send_media(1)
  \/ finish(1)
  \/ \E m \in StepInputs("c1") : Idle /\ ignore("c1", m)

StepSpec == Init /\ [][StepNext]_vars

\* per chat: the commands, one image and one valid answer per stage
Inputs2(c) ==
  IF conv[c] = END THEN EndInputs
  ELSE {StartCmd, CancelCmd, PhotoMsg(1)}
       \cup {TextMsg(t) : t \in SmallStageTexts(conv[c])}

\* two conversations of the same user, in chats c1 and c2, each update sent
\* after the previous one was answered
Next2 ==
  \/ \E c \in AllChats : \E m \in Inputs2(c) : Idle /\ start(1, c, m)
  \/ \E c \in AllChats : \E m \in Inputs2(c) : Idle /\ cancel(1, c, m)
  \/ \E c \in AllChats : \E m \in Inputs2(c) : Idle /\ handle_category(1, c, m)
  \/ \E c \in AllChats : \E m \in Inputs2(c) : Idle /\ handle_item_name(1, c, m)
  \/ \E c \in AllChats : \E m \in Inputs2(c) : Idle /\ handle_photos(1, c, m)
  \/ \E c \in AllChats : \E m \in Inputs2(c) : Idle /\ handle_description(1, c, m)
  \/ \E c \in AllChats : \E m \in Inputs2(c) : Idle /\ handle_price(1, c, m)
  \/ \E c \in AllChats : \E m \in Inputs2(c) : Idle /\ handle_city(1, c, m)
  \/ \E c \in AllChats : \E m \in Inputs2(c) : Idle /\ handle_delivery(1, c, m)
  \/ \E c \in AllChats : \E m \in Inputs2(c) : Idle /\ handle_pickup_address(1, c, m)
  \/ \E c \in AllChats : \E m \in Inputs2(c) : Idle /\ handle_contacts(1, c, m)
  \/ \E c \in AllChats : \E m \in Inputs2(c) : Idle /\ confirm_application(1, c, m)
  \/ confirm_send_media(1)
  \/ finish(1)
  \/ \E c \in AllChats : \E m \in Inputs2(c) : Idle /\ ignore(c, m)

Spec2 == Init /\ [][Next2]_vars

\* ---------------------------------------------------------------------------
\* Properties
\* ---------------------------------------------------------------------------

\* the chat of the update a step processes
EvC == ev'.c

\* a step routing an update whose awaited answer was delivered: conv[EvC] is
\* the stage it was routed at, ud' holds the handler's user_data writes and
\* ev'.st the state the handler returns (a failing reply_text instead ends the
\* conversation through error_handler)
Answered == ev'.ph = "route" /\ ev'.ok

\* the universal Cancel: the "❌ Отмена" button or the /cancel command
IsCancelInput(m) == (m.kind = "text" /\ m.t = CancelTok) \/ (m.kind = "cmd" /\ m.cmd = "cancel")

\* C1: a Cancel update at any stage clears user_data, answers "cancelled" and
\* ends the conversation; afterwards every update other than /start is ignored.
C1_CancelFromAnyStage ==
  [][ Answered =>
      /\ (conv[EvC] \in States /\ IsCancelInput(ev'.m))
          => (ev'.st = END /\ ud' = EmptyUserData /\ reply'.tag = "cancelled")
      /\ (conv[EvC] = END /\ ~(ev'.m.kind = "cmd" /\ ev'.m.cmd = "start"))
          => (ev'.h = "none" /\ conv' = conv /\ ud' = ud) ]_vars

\* the stage a Back leaves to, and the field a stage writes
BackTarget(st) ==
  CASE st = "GET_ITEM_NAME" -> {"CHOOSE_CATEGORY"}
    [] st = "GET_PHOTOS" -> {"GET_ITEM_NAME"}
    [] st = "GET_DESCRIPTION" -> {"GET_PHOTOS"}
    [] st = "GET_PRICE" -> {"GET_DESCRIPTION"}
    [] st = "GET_CITY" -> {"GET_PRICE"}
    [] st = "GET_DELIVERY" -> {"GET_CITY"}
    [] st = "GET_PICKUP_ADDRESS" -> {"GET_DELIVERY"}
    [] st = "GET_CONTACTS" -> {"GET_PICKUP_ADDRESS", "GET_DELIVERY"}
    [] st = "CONFIRM" -> {"GET_CONTACTS"}

FieldOf(st) ==
  CASE st = "CHOOSE_CATEGORY" -> {"category"}
    [] st = "GET_ITEM_NAME" -> {"item_name", "user_name"}
    [] st = "GET_PHOTOS" -> {"photos"}
    [] st = "GET_DESCRIPTION" -> {"description"}
    [] st = "GET_PRICE" -> {"price"}
    [] st = "GET_CITY" -> {"city"}
    [] st = "GET_DELIVERY" -> {"delivery"}
    [] st = "GET_PICKUP_ADDRESS" -> {"pickup_address"}
    [] st = "GET_CONTACTS" -> {"contacts"}
    [] st = "CONFIRM" -> {}

\* C2: Back at a non-entry stage moves to its backward target and the field
\* that stage writes is absent from user_data afterwards.
C2_BackRollsBack ==
  [][ (Answered /\ conv[EvC] \in States \ {"CHOOSE_CATEGORY"} /\ ev'.m = TextMsg(BackTok))
        => (ev'.st \in BackTarget(conv[EvC]) /\ \A k \in FieldOf(conv[EvC]) : ud'[k] = NONE) ]_vars

\* the inputs a stage's rule rejects (Back and Cancel excluded)
Rejected(st, m, u) ==
  /\ ~IsCancelInput(m) /\ m # TextMsg(BackTok)
  /\ CASE st = "GET_ITEM_NAME" -> m.kind = "text" /\ ~validate_text(m.t, 2, 200)
       [] st = "GET_PHOTOS" ->
            \/ HasText(m) /\ m.t \notin {NextTok, BackTok, CancelTok}
            \/ m = TextMsg(NextTok) /\ Len(PhotoList(u)) = 0
            \* an image beyond the tenth, answered "no more than 10 photos"
            \/ m.kind = "photo" /\ ~InList(m.id, PhotoList(u)) /\ Len(PhotoList(u)) >= 10
       [] st = "GET_DESCRIPTION" -> m.kind = "text" /\ m.t # NoInfoTok /\ ~validate_text(m.t, 2, 500)
       [] st = "GET_PRICE" -> m.kind = "text" /\ validate_price(m.t) = "false"
       [] st = "GET_CITY" -> m.kind = "text" /\ ~validate_text(m.t, 2, 50)
       [] st = "GET_DELIVERY" -> m.kind = "text" /\ m.t \notin {PickupTok, DeliveryTok}
       [] st = "GET_PICKUP_ADDRESS" -> m.kind = "text" /\ ~validate_text(m.t, 5, 200)
       [] st = "GET_CONTACTS" -> m.kind = "text" /\ ~validate_phone(m.t)
       [] st = "CONFIRM" -> m.kind = "text" /\ m.t \notin {ConfirmTok, CancelConfirmTok}
       [] OTHER -> FALSE

\* C3: an input rejected by the current stage's rule leaves the stage and
\* user_data unchanged.
C3_RejectIsNoop ==
  [][ (Answered /\ conv[EvC] \in States /\ ev'.m.kind # "cmd" /\ Rejected(conv[EvC], ev'.m, ud))
        => (ev'.st = conv[EvC] /\ ud' = ud) ]_vars

\* C4: user_data never holds more than 10 photos.
C4_PhotoCap == Len(PhotoList(ud)) <= 10

NoDuplicatePhotos ==
  \A i, j \in 1..Len(PhotoList(ud)) : i # j => PhotoList(ud)[i] # PhotoList(ud)[j]

\* C5: at GET_PHOTOS an image already stored leaves the photo list and the
\* stage unchanged, so the list never holds a duplicate.
C5_PhotoDedup ==
  /\ [](NoDuplicatePhotos)
  /\ [][ (ev'.ph = "route" /\ conv[EvC] = "GET_PHOTOS" /\ ev'.m.kind = "photo" /\ InList(ev'.m.id, PhotoList(ud)))
           => (PhotoList(ud') = PhotoList(ud) /\ conv' = conv) ]_vars

\* a duplicate image was just sent at GET_PHOTOS
C5_Witness ==
  /\ ev.h = "handle_photos" /\ ev.m.kind = "photo" /\ reply.tag = "none"
  /\ Len(PhotoList(ud)) >= 2 /\ ev.m.id \in 1..Len(PhotoList(ud))

RequiredKeys == {"item_name", "category", "price", "city", "delivery", "contacts"}

\* every required field is present, and the pickup address when delivery is pickup
Complete(u) ==
  /\ \A k \in RequiredKeys : u[k] # NONE
  /\ u["delivery"] = SV(PickupTok) => u["pickup_address"] # NONE

\* the summary holds the line (f, v)
HasLine(b, f, v) == \E i \in 1..Len(b) : b[i].f = f /\ b[i].v = v

Min10(n) == IF n < 10 THEN n ELSE 10

\* C6: confirming with every required field present hands exactly one
\* summary text to the transport, holding every required field's value, and
\* one media group of min(n, 10) images, n the photos stored when confirming
\* (none when no photo is stored).
C6_ConfirmDispatch ==
  [][ /\ (ev'.ph = "route" /\ conv[EvC] = "CONFIRM" /\ ev'.m = TextMsg(ConfirmTok) /\ Complete(ud))
          => /\ Len(admin') = 1 /\ admin'[1].type = "text"
             /\ \A k \in RequiredKeys : HasLine(admin'[1].body, k, ud[k].t)
             /\ ud["delivery"] = SV(PickupTok)
                  => HasLine(admin'[1].body, "pickup_address", ud["pickup_address"].t)
      /\ \A i \in Slots :
           (tasks[i].pc = "sent" /\ tasks'[i].pc = "await")
             => /\ tasks[i].n = 0 => admin' = <<>>
                /\ tasks[i].n > 0 => (Len(admin') = 1 /\ admin'[1].type = "media"
                                      /\ Len(admin'[1].media) = Min10(tasks[i].n)) ]_vars

\* C7: the round trip of spec section 8, its updates sent in order, submits
\* category Coins, item name "Old Ruble", price 500, pickup at "1 Main St",
\* contacts +79161234567 and the single image A (file id 1).
C7_RoundTrip ==
  [][ /\ (rt' = Len(Script) /\ ev'.ph = "route")
          => /\ Len(admin') = 1
             /\ HasLine(admin'[1].body, "category", Coins)
             /\ HasLine(admin'[1].body, "item_name", OldRuble)
             /\ HasLine(admin'[1].body, "price", P500)
             /\ HasLine(admin'[1].body, "delivery", PickupTok)
             /\ HasLine(admin'[1].body, "pickup_address", MainSt)
             /\ HasLine(admin'[1].body, "contacts", Phone)
      /\ (rt = Len(Script) /\ ev'.ph = "resume")
          => (Len(admin') = 1 /\ admin'[1].media = <<1>>) ]_vars

\* a str of decimal digits (Unicode Nd) whose value is positive
DecimalPositive(t) ==
  Len(t.ch) > 0 /\ (\A i \in 1..Len(t.ch) : IsDecimalChar(t.ch[i])) /\ IntVal(t.ch) > 0

\* C8: at GET_PRICE a text other than Back/Cancel is stored as the price and
\* moves to GET_CITY iff it is a positive decimal number; every other price
\* text, such as "0", "-5" and "12a", is rejected and keeps the stage at
\* GET_PRICE.
C8_PriceValidation ==
  [][ (ev'.ph = "route" /\ conv[EvC] = "GET_PRICE" /\ ev'.m.kind = "text" /\ ev'.m.t \notin {BackTok, CancelTok})
        => /\ (ev'.st = "GET_CITY" /\ ud'["price"] = SV(ev'.m.t)) <=> DecimalPositive(ev'.m.t)
           /\ ~DecimalPositive(ev'.m.t) => ev'.st = "GET_PRICE" ]_vars

\* the trimmed-length bounds of the free-text stages and the stage each leads to
TextBounds(st) ==
  CASE st = "GET_ITEM_NAME" -> [lo |-> 2, hi |-> 100, next |-> "GET_PHOTOS"]
    [] st = "GET_DESCRIPTION" -> [lo |-> 2, hi |-> 500, next |-> "GET_PRICE"]
    [] st = "GET_CITY" -> [lo |-> 2, hi |-> 50, next |-> "GET_DELIVERY"]
    [] st = "GET_PICKUP_ADDRESS" -> [lo |-> 5, hi |-> 200, next |-> "GET_CONTACTS"]

TextStages == {"GET_ITEM_NAME", "GET_DESCRIPTION", "GET_CITY", "GET_PICKUP_ADDRESS"}

\* C9: a free-text stage accepts a text (not Back, Cancel or the "no info"
\* button) iff its trimmed length is within the stage's bounds; otherwise the
\* stage stays.
C9_TextBounds ==
  [][ (Answered /\ conv[EvC] \in TextStages /\ ev'.m.kind = "text"
       /\ ev'.m.t \notin {BackTok, CancelTok, NoInfoTok})
        => LET b == TextBounds(conv[EvC])
               inb == b.lo <= StripLen(ev'.m.t.ch) /\ StripLen(ev'.m.t.ch) <= b.hi
           IN /\ (ev'.st = b.next) <=> inb
              /\ ~inb => ev'.st = conv[EvC] ]_vars

\* position of a stage on the forward path, and of the stage writing a key
StageIdx(st) ==
  CASE st = "CHOOSE_CATEGORY" -> 1 [] st = "GET_ITEM_NAME" -> 2 [] st = "GET_PHOTOS" -> 3
    [] st = "GET_DESCRIPTION" -> 4 [] st = "GET_PRICE" -> 5 [] st = "GET_CITY" -> 6
    [] st = "GET_DELIVERY" -> 7 [] st = "GET_PICKUP_ADDRESS" -> 8
    [] st = "GET_CONTACTS" -> 9 [] st = "CONFIRM" -> 10

WriterIdx(k) ==
  CASE k = "category" -> 1 [] k \in {"item_name", "user_name", "photos"} -> 2
    [] k = "description" -> 4 [] k = "price" -> 5 [] k = "city" -> 6
    [] k = "delivery" -> 7 [] k = "pickup_address" -> 8 [] k = "contacts" -> 9

\* C10: the conversation state is always a stage or ended, and user_data only
\* holds keys of stages on the path up to the current one (the current
\* stage's own earlier value when it was re-entered by Back); none of a stage
\* that was backed over, and no pickup address on the delivery path.
C10_FieldsOnPath ==
  /\ conv["c1"] \in States \cup {END}
  /\ conv["c1"] \in States =>
       \A k \in Keys : ud[k] # NONE =>
         /\ WriterIdx(k) <= StageIdx(conv["c1"])
         /\ k = "pickup_address" => ud["delivery"] = SV(PickupTok)

\* C11: when the transport fails to deliver the confirmed submission, the
\* user is told to restart, and the conversation ends with user_data cleared.
C11_DispatchFailure ==
  [][ /\ (\E k \in 1..Len(admin') : ~admin'[k].ok) => reply'.tag = "error"
      /\ (ev'.ph = "end" /\ ~ev'.ok) => (conv'[EvC] = END /\ ud' = EmptyUserData) ]_vars

\* C14: the dispatched summary carries a pickup address only when the
\* committed delivery choice is pickup.
C14_PickupOnlyForPickup ==
  (Len(admin) >= 1 /\ admin[1].type = "text"
   /\ \E i \in 1..Len(admin[1].body) : admin[1].body[i].f = "pickup_address")
    => HasLine(admin[1].body, "delivery", PickupTok)

\* C15: a confirmed submission is delivered whole or not at all: once its
\* text was delivered, its images are delivered too.
C15_AtomicSubmission ==
  [][ ev'.ph = "resume" => \A k \in 1..Len(admin') : admin'[k].ok ]_vars

\* C16: at GET_PHOTOS "📤 Далее" moves to GET_DESCRIPTION only when at least
\* one photo is stored and otherwise re-prompts with an error; photos and any
\* other text keep the stage.
C16_PhotosAdvanceGate ==
  [][ (ev'.ph = "route" /\ conv[EvC] = "GET_PHOTOS" /\ ev'.h = "handle_photos")
        => /\ ev'.m = TextMsg(NextTok)
                => /\ (ev'.st = "GET_DESCRIPTION") <=> Len(PhotoList(ud)) >= 1
                   /\ Len(PhotoList(ud)) = 0
                        => (ev'.st = "GET_PHOTOS" /\ reply'.tag = "err_need_photo")
           /\ (ev'.m.kind = "photo" \/ ev'.m.t \notin {NextTok, BackTok, CancelTok})
                => ev'.st = "GET_PHOTOS" ]_vars

\* C17: at GET_DELIVERY the pickup button stores the choice and moves to
\* GET_PICKUP_ADDRESS, the delivery button stores it and moves to
\* GET_CONTACTS, any other text re-prompts unchanged; Back at GET_CONTACTS
\* returns to GET_PICKUP_ADDRESS exactly when GET_CONTACTS was reached through
\* it, and to GET_DELIVERY otherwise.
C17_DeliveryBranching ==
  [][ /\ (ev'.ph = "route" /\ conv[EvC] = "GET_DELIVERY" /\ ev'.h = "handle_delivery")
           => /\ ev'.m.t = PickupTok
                   => (ev'.st = "GET_PICKUP_ADDRESS" /\ ud' = [ud EXCEPT !["delivery"] = SV(PickupTok)])
              /\ ev'.m.t = DeliveryTok
                   => (ev'.st = "GET_CONTACTS" /\ ud' = [ud EXCEPT !["delivery"] = SV(DeliveryTok)])
              /\ ev'.m.t \notin {PickupTok, DeliveryTok, BackTok, CancelTok}
                   => (ev'.st = "GET_DELIVERY" /\ ud' = ud)
      /\ (ev'.ph = "route" /\ conv[EvC] = "GET_CONTACTS" /\ ev'.h = "handle_contacts" /\ ev'.m.t = BackTok)
           => ev'.st = IF via[EvC] = "GET_PICKUP_ADDRESS" THEN "GET_PICKUP_ADDRESS"
                       ELSE "GET_DELIVERY" ]_vars

\* C18: at CONFIRM any input other than confirm, cancel (the "❌ Отменить" and
\* "❌ Отмена" buttons, /cancel), Back and the entry command /start (C22)
\* re-prompts at CONFIRM and leaves user_data unchanged.
C18_ConfirmOtherInput ==
  [][ (ev'.ph = "route" /\ conv[EvC] = "CONFIRM"
       /\ ev'.m \notin {TextMsg(ConfirmTok), TextMsg(CancelConfirmTok), TextMsg(CancelTok),
                        TextMsg(BackTok), CancelCmd, StartCmd})
        => (ev'.st = "CONFIRM" /\ ud' = ud /\ reply'.tag = "use_buttons" /\ admin' = <<>>) ]_vars

\* C20: in one conversation whose updates are processed in order, whenever
\* the stage is CONFIRM between two updates user_data holds every required
\* field, at least one photo, and the pickup address when delivery is pickup.
C20_NoStageSkipping ==
  (conv["c1"] = "CONFIRM" /\ Idle) => (Complete(ud) /\ Len(PhotoList(ud)) >= 1)

\* CONFIRM was reached on the pickup branch
C20_Witness == conv["c1"] = "CONFIRM" /\ Idle /\ ud["delivery"] = SV(PickupTok)

\* C12: an update of one conversation never changes the stage or the fields
\* of another active conversation.
C12_SessionIsolation ==
  [][ \A c \in AllChats :
        (c # EvC /\ conv[c] \in States) => (conv'[c] = conv[c] /\ ud' = ud) ]_vars

\* C19: confirming while a required field (or the pickup address when
\* delivery is pickup) is missing dispatches nothing and ends the
\* conversation with the internal-error notice.
C19_IncompleteConfirm ==
  [][ (Answered /\ conv[EvC] = "CONFIRM" /\ ev'.m = TextMsg(ConfirmTok) /\ ~Complete(ud))
        => (admin' = <<>> /\ ev'.st = END /\ reply'.tag = "err_missing") ]_vars

\* C13: the updates of one conversation are processed one after the other:
\* no update is routed while another update's handler is still running.
C13_PerSessionSerialization ==
  Cardinality({i \in Slots : tasks[i].pc # "idle"}) <= 1

\* C21: at GET_PRICE every text other than Cancel (and Back, which returns to
\* GET_DESCRIPTION) keeps the stage at GET_PRICE or advances to GET_CITY; no
\* price text ends the conversation through the exception path.
C21_PriceErrorsStayLocal ==
  [][ (Answered /\ conv[EvC] = "GET_PRICE" /\ ev'.m.kind = "text" /\ ev'.m.t \notin {BackTok, CancelTok})
        => ev'.st \in {"GET_PRICE", "GET_CITY"} ]_vars

\* C22: /start received at any stage (GET_PHOTOS included, whose handler also
\* accepts command text) clears all of user_data and moves to CHOOSE_CATEGORY.
C22_StartFromAnyStage ==
  [][ (ev'.ph = "route" /\ ev'.m = StartCmd) => (ud' = EmptyUserData /\ ev'.st = "CHOOSE_CATEGORY") ]_vars

====
